---- MODULE Spec2Model ----
(***************************************************************************)
(* A model of the query planner of RMDB (src/optimizer/planner.cpp):       *)
(* access-path selection (get_index_cols), the rewrite of the WHERE        *)
(* conjuncts into per-relation filters and join predicates (pop_conds,     *)
(* pop_scan, push_conds), the join build of make_one_rel, and the          *)
(* group-by / sort / projection wrapping of do_planner; and of the         *)
(* execution manager (src/execution/execution_manager.cpp): the utility    *)
(* dispatch of run_cmd_utility and the result output of select_from.       *)
(*                                                                         *)
(* One planner call is followed step by step: pc is the position inside    *)
(* do_planner / make_one_rel, and every loop body of make_one_rel's join   *)
(* build is one action.                                                    *)
(***************************************************************************)
EXTENDS Integers, Sequences, FiniteSets, TLC

VARIABLES
    catalog,                \* sm_manager_->db_ : table name -> list of indexes (column lists)
    g_enable_nestloop,      \* global knob read by make_one_rel
    g_enable_sortmerge,     \* global knob read by make_one_rel
    kind,                   \* dynamic type of query->parse
    tables,                 \* query->tables
    conds,                  \* query->conds, later the local conds of make_one_rel
    sel,                    \* the SELECT's group-by / aggregate / order-by fields
    table_scan_executors,   \* make_one_rel local
    scantbl,                \* make_one_rel local
    joined_tables,          \* make_one_rel local
    table_join_executors,   \* make_one_rel local, the running join tree
    plannerRoot,            \* what do_planner returns
    pc,                     \* position inside the planner call
    conds0,                 \* history: query->conds as handed to do_planner
    last,                   \* history: the step just taken, with what it consumed
    cases,                  \* history: the branch each join condition took, in order
    utility_plan,           \* run_cmd_utility parameter plan
    txn_id,                 \* run_cmd_utility parameter *txn_id
    offset_,                \* *(context->offset_)
    data_send_,             \* context->data_send_, the send buffer
    calls,                  \* the calls made on sm_manager_, txn_mgr_ and context->txn_, in order
    executorTreeRoot,       \* select_from's executor: its tuples, columns and cursor
    select_cols,            \* select_from parameter sel_cols
    select_aggs,            \* select_from parameter sel_aggs
    rec_printer,            \* what the RecordPrinter was asked to print, in order
    outfile,                \* the lines of <db>/output.txt
    num_rec                 \* select_from local

plannerVars == <<catalog, kind, tables, conds, sel, table_scan_executors, scantbl,
                 joined_tables, table_join_executors, plannerRoot, conds0, last, cases>>

utilityVars == <<utility_plan, txn_id, offset_, data_send_, calls>>

selectVars == <<executorTreeRoot, select_cols, select_aggs, rec_printer, outfile, num_rec>>

vars == <<g_enable_nestloop, g_enable_sortmerge, pc, plannerVars, utilityVars, selectVars>>

-----------------------------------------------------------------------------
(* Bounds of the checked inputs *)

\* longest WHERE conjunct list of a planned statement
MaxConds == 3
\* longest WHERE conjunct list of the SELECTs whose group-by / order-by fields vary
MaxShapeConds == 1
\* most indexes on the table of the access-path specification
MaxIdx == 2
\* longest conjunct list of the access-path specification
MaxIdxConds == 2
\* largest send-buffer offset run_cmd_utility starts from
MaxOffset == 3
\* most tuples the executor of select_from yields
MaxRows == 3

-----------------------------------------------------------------------------
(* Values *)

SeqsUpTo(S, n) == UNION {[1..k -> S] : k \in 0..n}

Range(f) == {f[i] : i \in DOMAIN f}

TabCol(t, c) == [tab_name |-> t, col_name |-> c]

\* a default-constructed TabCol (the rhs_col of a condition against a literal)
NoCol == TabCol("", "")

ValCond(t, c, o, v) ==
    [lhs_col |-> TabCol(t, c), op |-> o, is_rhs_val |-> TRUE, rhs_col |-> NoCol, rhs_val |-> v]

ColCond(t1, c1, o, t2, c2) ==
    [lhs_col |-> TabCol(t1, c1), op |-> o, is_rhs_val |-> FALSE, rhs_col |-> TabCol(t2, c2),
     rhs_val |-> 0]

CompOps == {"OP_EQ", "OP_NE", "OP_LT", "OP_GT", "OP_LE", "OP_GE"}

NullPlan == [node |-> "null"]

ScanPlan(tag, tab_name, cs, index_col_names) ==
    [node |-> "Scan", tag |-> tag, tab_name |-> tab_name, conds |-> cs,
     index_col_names |-> index_col_names]

JoinPlan(tag, left, right, cs) ==
    [node |-> "Join", tag |-> tag, left |-> left, right |-> right, conds |-> cs]

SortPlan(subplan, sel_cols, is_desc) ==
    [node |-> "Sort", tag |-> "T_Sort", subplan |-> subplan, sel_cols |-> sel_cols,
     is_desc |-> is_desc]

GroupByPlan(subplan, gb_cols, a_exprs) ==
    [node |-> "GroupBy", tag |-> "T_GroupBy", subplan |-> subplan, gb_cols |-> gb_cols,
     a_exprs |-> a_exprs]

ProjectionPlan(subplan) ==
    [node |-> "Projection", tag |-> "T_Projection", subplan |-> subplan]

DMLPlan(tag, subplan, tab_name, cs) ==
    [node |-> "DML", tag |-> tag, subplan |-> subplan, tab_name |-> tab_name, conds |-> cs]

-----------------------------------------------------------------------------
(* get_index_cols *)

\* the keys of col_to_cond_map: columns of tab_name compared with a literal
col_to_cond_map(tab_name, curr_conds) ==
    {curr_conds[i].lhs_col.col_name : i \in
        {j \in DOMAIN curr_conds :
            curr_conds[j].is_rhs_val /\ curr_conds[j].lhs_col.tab_name = tab_name}}

\* match_count without the break at the first column that is not in keys
RECURSIVE match_count_nobreak(_, _)
match_count_nobreak(cols, keys) ==
    IF cols = <<>> THEN 0
    ELSE (IF Head(cols) \in keys THEN 1 ELSE 0) + match_count_nobreak(Tail(cols), keys)

\* the inner loop over index.cols: count the leading columns found in keys, stop at the
\* first one that is not
RECURSIVE match_count(_, _)
match_count(cols, keys) ==
    IF cols = <<>> THEN 0
    ELSE IF Head(cols) \in keys THEN 1 + match_count(Tail(cols), keys)
    ELSE 0

\* the loop over tab_idxs from index k on, with the running max_match_count and best_idx
RECURSIVE index_loop(_, _, _, _, _)
index_loop(tab_idxs, keys, k, max_match_count, best_idx) ==
    IF k > Len(tab_idxs)
    THEN IF max_match_count = 0
         THEN [found |-> FALSE, index_col_names |-> <<>>]
         ELSE [found |-> TRUE, index_col_names |-> best_idx]
    ELSE LET index == tab_idxs[k]
             mc == match_count(index, keys)
             full_match == (mc = Len(index))
         IN  IF mc > max_match_count
             THEN IF full_match
                  THEN [found |-> TRUE, index_col_names |-> index]
                  ELSE index_loop(tab_idxs, keys, k + 1, mc, index)
             ELSE index_loop(tab_idxs, keys, k + 1, max_match_count, best_idx)

get_index_cols(tab_name, curr_conds) ==
    index_loop(catalog[tab_name], col_to_cond_map(tab_name, curr_conds), 1, 0, <<>>)

\* lines 260-267, 494-501, 514-521: the scan built from get_index_cols' answer
make_scan(tab_name, curr_conds) ==
    LET r == get_index_cols(tab_name, curr_conds)
    IN  IF r.found = FALSE
        THEN ScanPlan("T_SeqScan", tab_name, curr_conds, <<>>)
        ELSE ScanPlan("T_IndexScan", tab_name, curr_conds, r.index_col_names)

-----------------------------------------------------------------------------
(* pop_conds, push_conds, pop_scan *)

\* the conditions pop_conds moves out of cs for table tab_names, and what it leaves
pop_conds_test(c, tab_names) ==
    \/ (tab_names = c.lhs_col.tab_name /\ c.is_rhs_val)
    \/ (c.lhs_col.tab_name = c.rhs_col.tab_name)

pop_conds(cs, tab_names) ==
    [solved_conds |-> SelectSeq(cs, LAMBDA c : pop_conds_test(c, tab_names)),
     conds        |-> SelectSeq(cs, LAMBDA c : ~pop_conds_test(c, tab_names))]

\* swap_op that exchanges the sides without mirroring the operator
swap_op_unmirrored(o) == o

\* the table swap_op of push_conds and make_one_rel
swap_op(o) ==
    CASE o = "OP_EQ" -> "OP_EQ"
      [] o = "OP_NE" -> "OP_NE"
      [] o = "OP_LT" -> "OP_GT"
      [] o = "OP_GT" -> "OP_LT"
      [] o = "OP_LE" -> "OP_GE"
      [] o = "OP_GE" -> "OP_LE"

\* std::swap(lhs_col, rhs_col) followed by op = swap_op.at(op)
swap_cond(c) == [c EXCEPT !.lhs_col = c.rhs_col, !.rhs_col = c.lhs_col, !.op = swap_op(c.op)]

\* push_conds that leaves the condition at the join the call started from: a join whose
\* subtree took the condition takes it itself instead
RECURSIVE push_conds_topmost(_, _)
push_conds_topmost(cond, plan) ==
    IF plan.node = "Scan"
    THEN [res  |-> IF plan.tab_name = cond.lhs_col.tab_name THEN 1
                   ELSE IF plan.tab_name = cond.rhs_col.tab_name THEN 2
                   ELSE 0,
          plan |-> plan]
    ELSE IF plan.node = "Join"
    THEN LET l == push_conds_topmost(cond, plan.left)
             r == push_conds_topmost(cond, plan.right)
         IN  IF l.res = 3 \/ r.res = 3
             THEN [res |-> 3, plan |-> [plan EXCEPT !.conds = Append(plan.conds, cond)]]
             ELSE IF l.res = 0 \/ r.res = 0
             THEN [res |-> l.res + r.res, plan |-> plan]
             ELSE LET c == IF l.res = 2 THEN swap_cond(cond) ELSE cond
                  IN  [res  |-> 3,
                       plan |-> [plan EXCEPT !.conds = Append(plan.conds, c)]]
    ELSE [res |-> 0, plan |-> plan]

\* push_conds(cond, plan): the return code and the plan after the call
RECURSIVE push_conds(_, _)
push_conds(cond, plan) ==
    IF plan.node = "Scan"
    THEN [res  |-> IF plan.tab_name = cond.lhs_col.tab_name THEN 1
                   ELSE IF plan.tab_name = cond.rhs_col.tab_name THEN 2
                   ELSE 0,
          plan |-> plan]
    ELSE IF plan.node = "Join"
    THEN LET l == push_conds(cond, plan.left)
         IN  IF l.res = 3
             THEN [res |-> 3, plan |-> [plan EXCEPT !.left = l.plan]]
             ELSE LET r == push_conds(cond, plan.right)
                  IN  IF r.res = 3
                      THEN [res |-> 3, plan |-> [plan EXCEPT !.right = r.plan]]
                      ELSE IF l.res = 0 \/ r.res = 0
                      THEN [res |-> l.res + r.res, plan |-> plan]
                      ELSE LET c == IF l.res = 2 THEN swap_cond(cond) ELSE cond
                           IN  [res  |-> 3,
                                plan |-> [plan EXCEPT !.conds = Append(plan.conds, c)]]
    ELSE [res |-> 0, plan |-> plan]

\* the loop of pop_scan over tab_idxs from index k on: an index whose leading columns
\* are the join column
RECURSIVE pop_scan_loop(_, _, _, _, _)
pop_scan_loop(tab_idxs, col_name, k, max_match_count, best_idx) ==
    IF k > Len(tab_idxs)
    THEN IF max_match_count = 0
         THEN [found |-> FALSE, index_col_names |-> <<>>]
         ELSE [found |-> TRUE, index_col_names |-> best_idx]
    ELSE LET index == tab_idxs[k]
             mc == match_count(index, {col_name})
             full_match == (mc = Len(index))
         IN  IF mc > max_match_count
             THEN IF full_match
                  THEN [found |-> TRUE, index_col_names |-> index]
                  ELSE pop_scan_loop(tab_idxs, col_name, k + 1, mc, index)
             ELSE pop_scan_loop(tab_idxs, col_name, k + 1, max_match_count, best_idx)

\* pop_scan naming the join column alone instead of the index's column list
pop_scan_plan_joincol(x, col) ==
    IF x.tag = "T_IndexScan" THEN x
    ELSE LET r == pop_scan_loop(catalog[x.tab_name], col.col_name, 1, 0, <<>>)
         IN  IF r.found
             THEN ScanPlan("T_IndexScan", col.tab_name, x.conds, <<col.col_name>>)
             ELSE x

\* what pop_scan returns for plans[i], the scan of col's table (x.conds stands for
\* x->fed_conds_, the conditions the scan was constructed with)
pop_scan_plan(x, col) ==
    IF x.tag = "T_IndexScan" THEN x
    ELSE LET r == pop_scan_loop(catalog[x.tab_name], col.col_name, 1, 0, <<>>)
         IN  IF r.found
             THEN ScanPlan("T_IndexScan", col.tab_name, x.conds, r.index_col_names)
             ELSE x

\* pop_scan(scantbl, col, joined_tables, plans): the plan returned (NullPlan for
\* nullptr) and the two out-parameters after the call
pop_scan(stbl, col, jt, plans) ==
    LET hits == {i \in DOMAIN plans : plans[i].tab_name = col.tab_name}
    IN  IF hits = {}
        THEN [plan |-> NullPlan, scantbl |-> stbl, joined_tables |-> jt]
        ELSE LET i == CHOOSE h \in hits : \A g \in hits : h <= g
             IN  [plan          |-> pop_scan_plan(plans[i], col),
                  scantbl       |-> [stbl EXCEPT ![i] = 1],
                  joined_tables |-> Append(jt, plans[i].tab_name)]

InJoined(jt, t) == \E i \in DOMAIN jt : jt[i] = t

-----------------------------------------------------------------------------
(* make_one_rel *)

\* lines 252-268: one ScanPlan per table, each taking its conditions out of query->conds
RECURSIVE scan_loop(_, _, _, _)
scan_loop(tabs, i, cs, acc) ==
    IF i > Len(tabs)
    THEN [table_scan_executors |-> acc, conds |-> cs]
    ELSE LET p == pop_conds(cs, tabs[i])
         IN  scan_loop(tabs, i + 1, p.conds, Append(acc, make_scan(tabs[i], p.solved_conds)))

\* first_join with the two single-knob tests in the other order: sort-merge wins when both
\* knobs are on
first_join_sortmerge_first(left, right, join_conds, enable_nestedloop_join, enable_sortmerge_join) ==
    IF enable_sortmerge_join
    THEN JoinPlan("T_SortMerge",
                  IF left.tag = "T_SeqScan"
                  THEN SortPlan(left, <<join_conds[1].lhs_col>>, FALSE) ELSE left,
                  IF right.tag = "T_SeqScan"
                  THEN SortPlan(right, <<join_conds[1].rhs_col>>, FALSE) ELSE right,
                  join_conds)
    ELSE IF enable_nestedloop_join
    THEN JoinPlan("T_NestLoop", left, right, join_conds)
    ELSE [node |-> "throw", what |-> "No join executor selected!"]

\* lines 298-345: the join of the first join condition, by the two knobs
\* ([node |-> "throw"] stands for the exception thrown when both are off)
first_join(left, right, join_conds, enable_nestedloop_join, enable_sortmerge_join) ==
    IF enable_nestedloop_join /\ enable_sortmerge_join
    THEN JoinPlan("T_NestLoop", left, right, join_conds)
    ELSE IF enable_nestedloop_join
    THEN JoinPlan("T_NestLoop", left, right, join_conds)
    ELSE IF enable_sortmerge_join
    THEN IF left.tag \notin {"T_SeqScan", "T_IndexScan"} \/ right.tag \notin {"T_SeqScan", "T_IndexScan"}
         THEN [node |-> "throw", what |-> "bad plan while build sort merge join"]
         ELSE
         LET sorted_left ==
                 IF left.tag = "T_SeqScan"
                 THEN SortPlan(left, <<join_conds[1].lhs_col>>, FALSE)
                 ELSE left
             sorted_right ==
                 IF right.tag = "T_SeqScan"
                 THEN SortPlan(right, <<join_conds[1].rhs_col>>, FALSE)
                 ELSE right
         IN  JoinPlan("T_SortMerge", sorted_left, sorted_right, join_conds)
    ELSE [node |-> "throw", what |-> "No join executor selected!"]

\* join_next_cond with the new scan joined onto the right of the running tree
join_next_cond_leftdeep(it, stbl, jt, plans, tree) ==
    LET lneed == ~InJoined(jt, it.lhs_col.tab_name)
        l == IF lneed THEN pop_scan(stbl, it.lhs_col, jt, plans)
             ELSE [plan |-> NullPlan, scantbl |-> stbl, joined_tables |-> jt]
        rneed == ~InJoined(l.joined_tables, it.rhs_col.tab_name)
        r == IF rneed THEN pop_scan(l.scantbl, it.rhs_col, l.joined_tables, plans)
             ELSE [plan |-> NullPlan, scantbl |-> l.scantbl, joined_tables |-> l.joined_tables]
    IN  [scantbl |-> r.scantbl,
         joined_tables |-> r.joined_tables,
         case |-> IF l.plan # NullPlan /\ r.plan # NullPlan THEN "both"
                  ELSE IF l.plan # NullPlan \/ r.plan # NullPlan THEN "one"
                  ELSE "push",
         tree |->
            IF l.plan # NullPlan /\ r.plan # NullPlan
            THEN JoinPlan("T_NestLoop", JoinPlan("T_NestLoop", l.plan, r.plan, <<it>>), tree, <<>>)
            ELSE IF l.plan # NullPlan \/ r.plan # NullPlan
            THEN IF rneed
                 THEN JoinPlan("T_NestLoop", tree, r.plan, <<it>>)
                 ELSE JoinPlan("T_NestLoop", tree, l.plan, <<swap_cond(it)>>)
            ELSE push_conds(it, tree).plan]

\* lines 353-388: one iteration of the loop over the second and later join conditions
join_next_cond(it, stbl, jt, plans, tree) ==
    LET lneed == ~InJoined(jt, it.lhs_col.tab_name)
        l == IF lneed THEN pop_scan(stbl, it.lhs_col, jt, plans)
             ELSE [plan |-> NullPlan, scantbl |-> stbl, joined_tables |-> jt]
        rneed == ~InJoined(l.joined_tables, it.rhs_col.tab_name)
        r == IF rneed THEN pop_scan(l.scantbl, it.rhs_col, l.joined_tables, plans)
             ELSE [plan |-> NullPlan, scantbl |-> l.scantbl, joined_tables |-> l.joined_tables]
        isneedreverse == rneed
        left_need_to_join_executors == l.plan
        right_need_to_join_executors == r.plan
    IN  [scantbl |-> r.scantbl,
         joined_tables |-> r.joined_tables,
         case |-> IF left_need_to_join_executors # NullPlan /\ right_need_to_join_executors # NullPlan
                  THEN "both"
                  ELSE IF left_need_to_join_executors # NullPlan \/ right_need_to_join_executors # NullPlan
                  THEN "one"
                  ELSE "push",
         tree |->
            IF left_need_to_join_executors # NullPlan /\ right_need_to_join_executors # NullPlan
            THEN JoinPlan("T_NestLoop",
                          JoinPlan("T_NestLoop", left_need_to_join_executors,
                                   right_need_to_join_executors, <<it>>),
                          tree, <<>>)
            ELSE IF left_need_to_join_executors # NullPlan \/ right_need_to_join_executors # NullPlan
            THEN IF isneedreverse
                 THEN JoinPlan("T_NestLoop", right_need_to_join_executors, tree,
                               <<swap_cond(it)>>)
                 ELSE JoinPlan("T_NestLoop", left_need_to_join_executors, tree, <<it>>)
            ELSE push_conds(it, tree).plan]

\* leftover_loop without the test of scantbl: every table is joined onto the right
RECURSIVE leftover_loop_unmarked(_, _, _, _)
leftover_loop_unmarked(i, stbl, plans, tree) ==
    IF i > Len(plans) THEN tree
    ELSE leftover_loop_unmarked(i + 1, stbl, plans, JoinPlan("T_NestLoop", tree, plans[i], <<>>))

\* lines 396-401: every table not yet marked is joined onto the right
RECURSIVE leftover_loop(_, _, _, _)
leftover_loop(i, stbl, plans, tree) ==
    IF i > Len(plans) THEN tree
    ELSE leftover_loop(i + 1, stbl, plans,
                       IF stbl[i] = -1
                       THEN JoinPlan("T_NestLoop", tree, plans[i], <<>>)
                       ELSE tree)

-----------------------------------------------------------------------------
(* generate_groupby_plan, generate_sort_plan *)

generate_groupby_plan(query, plan) ==
    IF Len(query.gb_cols) = 0 /\ Len(query.a_exprs) = 0
    THEN plan
    ELSE GroupByPlan(plan, query.gb_cols, query.a_exprs)

generate_sort_plan(query, plan) ==
    IF ~query.has_sort
    THEN plan
    ELSE SortPlan(plan, query.order_cols, query.order_dir = "OP_DESC")

\* select_root with the sort generated before the group-by
select_root_sort_first(query, plan) ==
    DMLPlan("T_select",
            ProjectionPlan(generate_groupby_plan(query, generate_sort_plan(query, plan))),
            "", <<>>)

\* physical_optimization after make_one_rel, then the wrapping of generate_select_plan
\* and do_planner
select_root(query, plan) ==
    DMLPlan("T_select",
            ProjectionPlan(generate_sort_plan(query, generate_groupby_plan(query, plan))),
            "", <<>>)

-----------------------------------------------------------------------------
(* The statements planned *)

TableNames == <<"r", "s", "u", "v">>

\* the catalogs the SELECTs are planned against: the indexes of each table, in order
DefaultCatalog ==
    [t \in Range(TableNames) |->
        CASE t = "r" -> << <<"a">>, <<"a", "b">> >>
          [] t = "s" -> << <<"b", "a">> >>
          [] t = "u" -> << >>
          [] t = "v" -> << <<"a">> >>]

AltCatalog ==
    [t \in Range(TableNames) |->
        CASE t = "r" -> << <<"b">> >>
          [] t = "s" -> << <<"a", "b">>, <<"b">> >>
          [] t = "u" -> << <<"b", "a">> >>
          [] t = "v" -> << >>]

Catalogs == {DefaultCatalog, AltCatalog}

\* the WHERE conjuncts the SELECTs are built from: literal comparisons, a comparison of
\* two columns of one table, and join predicates with every operator and both orders
SelConds ==
    { ValCond("r", "a", "OP_EQ", 1),
      ValCond("r", "b", "OP_LT", 1),
      ValCond("s", "b", "OP_GT", 1),
      ColCond("s", "a", "OP_NE", "s", "b"),
      ColCond("r", "b", "OP_EQ", "s", "b"),
      ColCond("s", "a", "OP_LT", "r", "a"),
      ColCond("u", "b", "OP_GE", "s", "b"),
      ColCond("s", "b", "OP_LE", "u", "b"),
      ColCond("r", "a", "OP_NE", "u", "a"),
      ColCond("r", "b", "OP_EQ", "u", "b"),
      ColCond("u", "a", "OP_LE", "v", "a"),
      ColCond("v", "b", "OP_GT", "r", "b") }

CondTables(c) ==
    {c.lhs_col.tab_name} \cup (IF c.is_rhs_val THEN {} ELSE {c.rhs_col.tab_name})

CondsOver(tabs) == {c \in SelConds : CondTables(c) \subseteq Range(tabs)}

DefaultSel ==
    [has_sort |-> FALSE, order_cols |-> <<>>, order_dir |-> "OP_ASC",
     gb_cols |-> <<>>, a_exprs |-> <<>>]

SelFields ==
    {[has_sort |-> hs, order_cols |-> IF hs THEN <<TabCol("r", "a")>> ELSE <<>>,
      order_dir |-> d, gb_cols |-> g, a_exprs |-> a] :
        hs \in BOOLEAN, d \in {"OP_ASC", "OP_DESC"},
        g \in {<<>>, <<TabCol("r", "b")>>}, a \in {<<>>, <<"COUNT">>}}

\* the access-path specification: one table r(a, b, c), any list of distinct indexes
IdxCols == {"a", "b", "c"}

IdxColLists ==
    {<<x>> : x \in IdxCols} \cup {p \in IdxCols \X IdxCols : p[1] # p[2]}

IdxLists ==
    {l \in SeqsUpTo(IdxColLists, MaxIdx) : \A i, j \in DOMAIN l : i # j => l[i] # l[j]}

IdxConds ==
    {ValCond("r", c, "OP_EQ", 1) : c \in IdxCols} \cup {ColCond("r", "a", "OP_EQ", "r", "b")}

NoStep == [step |-> "none", conds |-> <<>>, tree |-> NullPlan, case |-> "none"]

\* select_from has been handed nothing
NoSelect ==
    /\ executorTreeRoot = NullPlan
    /\ select_cols = <<>>
    /\ select_aggs = <<>>
    /\ rec_printer = <<>>
    /\ outfile = <<>>
    /\ num_rec = 0

\* the execution manager has been handed nothing
NoExecution ==
    /\ utility_plan = NullPlan
    /\ txn_id = 0
    /\ offset_ = 0
    /\ data_send_ = <<>>
    /\ calls = <<>>
    /\ NoSelect

InitLocals ==
    /\ table_scan_executors = <<>>
    /\ scantbl = <<>>
    /\ joined_tables = <<>>
    /\ table_join_executors = NullPlan
    /\ plannerRoot = NullPlan
    /\ pc = "do_planner"
    /\ conds0 = conds
    /\ last = NoStep
    /\ cases = <<>>

Init ==
    /\ catalog \in Catalogs
    /\ g_enable_nestloop \in BOOLEAN
    /\ g_enable_sortmerge \in BOOLEAN
    /\ \/ /\ kind = "SelectStmt"
          /\ \E n \in 1..Len(TableNames) : tables = SubSeq(TableNames, 1, n)
          /\ conds \in SeqsUpTo(CondsOver(tables), MaxConds)
          /\ sel \in IF Len(conds) <= MaxShapeConds THEN SelFields ELSE {DefaultSel}
       \/ /\ kind \in {"DeleteStmt", "UpdateStmt"}
          /\ \E t \in Range(TableNames) : tables = <<t>>
          /\ conds \in SeqsUpTo(CondsOver(tables), MaxConds)
          /\ sel = DefaultSel
    /\ InitLocals
    /\ NoExecution

InitIdx ==
    /\ catalog \in {[t \in Range(TableNames) |-> IF t = "r" THEN l ELSE <<>>] : l \in IdxLists}
    /\ g_enable_nestloop = TRUE
    /\ g_enable_sortmerge = FALSE
    /\ kind \in {"DeleteStmt", "UpdateStmt"}
    /\ tables = <<"r">>
    /\ conds \in SeqsUpTo(IdxConds, MaxIdxConds)
    /\ sel = DefaultSel
    /\ InitLocals
    /\ NoExecution

-----------------------------------------------------------------------------
(* do_planner *)

\* lines 485-504
PlanDelete ==
    /\ pc = "do_planner"
    /\ kind = "DeleteStmt"
    /\ plannerRoot' = DMLPlan("T_Delete", make_scan(tables[1], conds), tables[1], conds)
    /\ pc' = "done"
    /\ last' = [NoStep EXCEPT !.step = "PlanDelete"]
    /\ UNCHANGED <<catalog, g_enable_nestloop, g_enable_sortmerge, kind, tables, conds, sel,
                   table_scan_executors, scantbl, joined_tables, table_join_executors, conds0, cases,
                   utilityVars, selectVars>>

\* lines 505-524
PlanUpdate ==
    /\ pc = "do_planner"
    /\ kind = "UpdateStmt"
    /\ plannerRoot' = DMLPlan("T_Update", make_scan(tables[1], conds), tables[1], conds)
    /\ pc' = "done"
    /\ last' = [NoStep EXCEPT !.step = "PlanUpdate"]
    /\ UNCHANGED <<catalog, g_enable_nestloop, g_enable_sortmerge, kind, tables, conds, sel,
                   table_scan_executors, scantbl, joined_tables, table_join_executors, conds0, cases,
                   utilityVars, selectVars>>

\* do_planner on a SELECT down to make_one_rel, lines 243-284: the scans; a single table
\* is returned as it is
BuildScans ==
    /\ pc = "do_planner"
    /\ kind = "SelectStmt"
    /\ LET r == scan_loop(tables, 1, conds, <<>>)
       IN  /\ table_scan_executors' = r.table_scan_executors
           /\ conds' = r.conds
           /\ IF Len(tables) = 1
              THEN /\ table_join_executors' = r.table_scan_executors[1]
                   /\ scantbl' = scantbl
                   /\ pc' = "physical_optimization"
              ELSE /\ table_join_executors' = table_join_executors
                   /\ scantbl' = [i \in 1..Len(tables) |-> -1]
                   /\ pc' = IF Len(r.conds) >= 1 THEN "first_join" ELSE "no_join_conds"
    /\ last' = [NoStep EXCEPT !.step = "BuildScans"]
    /\ UNCHANGED <<catalog, g_enable_nestloop, g_enable_sortmerge, kind, tables, sel,
                   joined_tables, plannerRoot, conds0, cases, utilityVars, selectVars>>

\* lines 286-349: the join of the first join condition
FirstJoin ==
    /\ pc = "first_join"
    /\ LET it == Head(conds)
           l == pop_scan(scantbl, it.lhs_col, [i \in 1..Len(tables) |-> ""],
                         table_scan_executors)
           r == pop_scan(l.scantbl, it.rhs_col, l.joined_tables, table_scan_executors)
           j == first_join(l.plan, r.plan, <<it>>, g_enable_nestloop, g_enable_sortmerge)
       IN  /\ scantbl' = r.scantbl
           /\ joined_tables' = r.joined_tables
           /\ IF j.node = "throw"
              THEN /\ pc' = "error"
                   /\ UNCHANGED <<table_join_executors, conds>>
              ELSE /\ table_join_executors' = j
                   /\ conds' = Tail(conds)
                   /\ pc' = IF Tail(conds) = <<>> THEN "leftover" ELSE "next_conds"
           /\ last' = [step |-> "FirstJoin", conds |-> <<it>>, tree |-> table_join_executors,
                       case |-> "first"]
           /\ cases' = Append(cases, "first")
    /\ UNCHANGED <<catalog, g_enable_nestloop, g_enable_sortmerge, kind, tables, sel,
                   table_scan_executors, plannerRoot, conds0, utilityVars, selectVars>>

\* lines 351-389: one pass of the loop over the remaining join conditions
JoinNextCond ==
    /\ pc = "next_conds"
    /\ conds # <<>>
    /\ LET it == Head(conds)
           r == join_next_cond(it, scantbl, joined_tables, table_scan_executors,
                               table_join_executors)
       IN  /\ scantbl' = r.scantbl
           /\ joined_tables' = r.joined_tables
           /\ table_join_executors' = r.tree
           /\ last' = [step |-> "JoinNextCond", conds |-> <<it>>,
                       tree |-> table_join_executors, case |-> r.case]
           /\ cases' = Append(cases, r.case)
    /\ conds' = Tail(conds)
    /\ pc' = IF Tail(conds) = <<>> THEN "leftover" ELSE "next_conds"
    /\ UNCHANGED <<catalog, g_enable_nestloop, g_enable_sortmerge, kind, tables, sel,
                   table_scan_executors, plannerRoot, conds0, utilityVars, selectVars>>

\* lines 390-393: no join condition at all
NoJoinConds ==
    /\ pc = "no_join_conds"
    /\ table_join_executors' = table_scan_executors[1]
    /\ scantbl' = [scantbl EXCEPT ![1] = 1]
    /\ pc' = "leftover"
    /\ last' = [NoStep EXCEPT !.step = "NoJoinConds"]
    /\ UNCHANGED <<catalog, g_enable_nestloop, g_enable_sortmerge, kind, tables, conds, sel,
                   table_scan_executors, joined_tables, plannerRoot, conds0, cases, utilityVars, selectVars>>

\* lines 395-402: the tables no join condition named; make_one_rel returns
JoinLeftover ==
    /\ pc = "leftover"
    /\ table_join_executors' =
           leftover_loop(1, scantbl, table_scan_executors, table_join_executors)
    /\ pc' = "physical_optimization"
    /\ last' = [NoStep EXCEPT !.step = "JoinLeftover", !.tree = table_join_executors]
    /\ UNCHANGED <<catalog, g_enable_nestloop, g_enable_sortmerge, kind, tables, conds, sel,
                   table_scan_executors, scantbl, joined_tables, plannerRoot, conds0, cases, utilityVars, selectVars>>

\* lines 232-238, 448-451, 530-531: group-by, sort, projection and the DML root
FinishSelect ==
    /\ pc = "physical_optimization"
    /\ plannerRoot' = select_root(sel, table_join_executors)
    /\ pc' = "done"
    /\ last' = [NoStep EXCEPT !.step = "FinishSelect"]
    /\ UNCHANGED <<catalog, g_enable_nestloop, g_enable_sortmerge, kind, tables, conds, sel,
                   table_scan_executors, scantbl, joined_tables, table_join_executors, conds0, cases,
                   utilityVars, selectVars>>

Next ==
    \/ PlanDelete
    \/ PlanUpdate
    \/ BuildScans
    \/ FirstJoin
    \/ JoinNextCond
    \/ NoJoinConds
    \/ JoinLeftover
    \/ FinishSelect

Spec == Init /\ [][Next]_vars

NextIdx ==
    \/ PlanDelete
    \/ PlanUpdate

SpecIdx == InitIdx /\ [][NextIdx]_vars

-----------------------------------------------------------------------------
(* run_cmd_utility *)

OtherPlan(tag, tab_name_) == [node |-> "Other", tag |-> tag, tab_name_ |-> tab_name_]

SetKnobPlan(set_knob_type_, bool_value_) ==
    [node |-> "SetKnob", set_knob_type_ |-> set_knob_type_, bool_value_ |-> bool_value_]

\* the help text, as the bytes of a C string (a short text stands for the long one)
help_info == <<104, 101, 108, 112, 10>>

strlen(str) == Len(str)

BUFFER_LENGTH == MaxOffset + strlen(help_info) + 1

\* memcpy(dest + at, src, n) on a buffer indexed from 0
memcpy(dest, at, src, n) ==
    [i \in DOMAIN dest |-> IF at <= i /\ i < at + n THEN src[i - at + 1] ELSE dest[i]]

\* a switch in which every case body ends with a break
case_break_always(label) == TRUE

\* whether the body of the case of the switch on x->tag ends with a break
case_break(label) == label # "T_ShowIndex"

\* the case labels of the switch on x->tag, in source order
case_labels ==
    <<"T_Help", "T_ShowTable", "T_ShowIndex", "T_DescTable", "T_Transaction_begin",
      "T_Transaction_commit", "T_Transaction_rollback", "T_Transaction_abort">>

\* the calls the body of one case makes on the collaborators (the body of T_Help makes
\* none: it writes the send buffer)
case_body(label, x, id) ==
    CASE label = "T_Help" -> <<>>
      [] label = "T_ShowTable" -> <<[on |-> "sm_manager_", call |-> "show_tables"]>>
      [] label = "T_ShowIndex" ->
            <<[on |-> "sm_manager_", call |-> "show_indexs", tab_name |-> x.tab_name_]>>
      [] label = "T_DescTable" ->
            <<[on |-> "sm_manager_", call |-> "desc_table", tab_name |-> x.tab_name_]>>
      [] label = "T_Transaction_begin" ->
            <<[on |-> "txn_", call |-> "set_txn_mode", mode |-> TRUE]>>
      [] label = "T_Transaction_commit" ->
            <<[on |-> "txn_mgr_", call |-> "get_transaction", txn_id |-> id],
              [on |-> "txn_mgr_", call |-> "commit", txn_id |-> id]>>
      [] label = "T_Transaction_rollback" ->
            <<[on |-> "txn_mgr_", call |-> "get_transaction", txn_id |-> id],
              [on |-> "txn_mgr_", call |-> "abort", txn_id |-> id]>>
      [] label = "T_Transaction_abort" ->
            <<[on |-> "txn_mgr_", call |-> "get_transaction", txn_id |-> id],
              [on |-> "txn_mgr_", call |-> "abort", txn_id |-> id]>>

\* control enters the case at position k and runs the bodies in order up to the first
\* break
RECURSIVE run_cases(_, _, _)
run_cases(k, x, id) ==
    IF k > Len(case_labels) THEN <<>>
    ELSE case_body(case_labels[k], x, id)
            \o (IF case_break(case_labels[k]) THEN <<>> ELSE run_cases(k + 1, x, id))

\* switch(x->tag) of the OtherPlan branch: the collaborator calls, in order
switch_tag(x, id) ==
    run_cases(CHOOSE k \in DOMAIN case_labels : case_labels[k] = x.tag, x, id)

UtilityTables == {"r", "s"}

UtilityPlans ==
    {OtherPlan(case_labels[k], t) : k \in DOMAIN case_labels, t \in UtilityTables}
        \cup {SetKnobPlan(k, b) : k \in {"EnableNestLoop", "EnableSortMerge"}, b \in BOOLEAN}

\* no statement is being planned
NoPlanning ==
    /\ catalog = DefaultCatalog
    /\ kind = "none"
    /\ tables = <<>>
    /\ conds = <<>>
    /\ sel = DefaultSel
    /\ table_scan_executors = <<>>
    /\ scantbl = <<>>
    /\ joined_tables = <<>>
    /\ table_join_executors = NullPlan
    /\ plannerRoot = NullPlan
    /\ conds0 = <<>>
    /\ last = NoStep
    /\ cases = <<>>

\* run_cmd_utility is entered with any utility plan, and with a send buffer that already
\* holds offset_ bytes of output
InitUtility ==
    /\ g_enable_nestloop \in BOOLEAN
    /\ g_enable_sortmerge \in BOOLEAN
    /\ utility_plan \in UtilityPlans
    /\ txn_id \in 1..2
    /\ offset_ \in 0..MaxOffset
    /\ data_send_ = [i \in 0..(BUFFER_LENGTH - 1) |-> IF i < offset_ THEN 45 ELSE 0]
    /\ calls = <<>>
    /\ pc = "run_cmd_utility"
    /\ NoPlanning
    /\ NoSelect

\* the history of a step of run_cmd_utility: the send buffer and offset it started from
UtilityStep(step) ==
    [step |-> step, conds |-> <<>>, tree |-> NullPlan, case |-> "none",
     offset_ |-> offset_, data_send_ |-> data_send_]

\* lines 81-86
RunHelp ==
    /\ pc = "run_cmd_utility"
    /\ utility_plan.node = "Other"
    /\ utility_plan.tag = "T_Help"
    /\ data_send_' = memcpy(data_send_, offset_, help_info, strlen(help_info))
    /\ offset_' = strlen(help_info)
    /\ calls' = calls \o switch_tag(utility_plan, txn_id)
    /\ pc' = "done"
    /\ last' = UtilityStep("RunHelp")
    /\ UNCHANGED <<g_enable_nestloop, g_enable_sortmerge, utility_plan, txn_id, selectVars,
                   catalog, kind, tables, conds, sel, table_scan_executors, scantbl,
                   joined_tables, table_join_executors, plannerRoot, conds0, cases>>

\* lines 87-100: the cases that go to the catalog
RunCatalogCommand ==
    /\ pc = "run_cmd_utility"
    /\ utility_plan.node = "Other"
    /\ utility_plan.tag \in {"T_ShowTable", "T_ShowIndex", "T_DescTable"}
    /\ calls' = calls \o switch_tag(utility_plan, txn_id)
    /\ pc' = "done"
    /\ last' = UtilityStep("RunCatalogCommand")
    /\ UNCHANGED <<g_enable_nestloop, g_enable_sortmerge, utility_plan, txn_id, offset_,
                   data_send_, selectVars,
                   catalog, kind, tables, conds, sel, table_scan_executors, scantbl,
                   joined_tables, table_join_executors, plannerRoot, conds0, cases>>

\* lines 101-124: the cases that go to the transaction and its manager
RunTransactionCommand ==
    /\ pc = "run_cmd_utility"
    /\ utility_plan.node = "Other"
    /\ utility_plan.tag \in {"T_Transaction_begin", "T_Transaction_commit",
                             "T_Transaction_rollback", "T_Transaction_abort"}
    /\ calls' = calls \o switch_tag(utility_plan, txn_id)
    /\ pc' = "done"
    /\ last' = UtilityStep("RunTransactionCommand")
    /\ UNCHANGED <<g_enable_nestloop, g_enable_sortmerge, utility_plan, txn_id, offset_,
                   data_send_, selectVars,
                   catalog, kind, tables, conds, sel, table_scan_executors, scantbl,
                   joined_tables, table_join_executors, plannerRoot, conds0, cases>>

\* lines 130-146
RunSetKnob ==
    /\ pc = "run_cmd_utility"
    /\ utility_plan.node = "SetKnob"
    /\ IF utility_plan.set_knob_type_ = "EnableNestLoop"
       THEN /\ g_enable_nestloop' = utility_plan.bool_value_
            /\ UNCHANGED g_enable_sortmerge
       ELSE /\ g_enable_sortmerge' = utility_plan.bool_value_
            /\ UNCHANGED g_enable_nestloop
    /\ pc' = "done"
    /\ last' = UtilityStep("RunSetKnob")
    /\ UNCHANGED <<utilityVars, selectVars,
                   catalog, kind, tables, conds, sel, table_scan_executors, scantbl,
                   joined_tables, table_join_executors, plannerRoot, conds0, cases>>

NextUtility ==
    \/ RunHelp
    \/ RunCatalogCommand
    \/ RunTransactionCommand
    \/ RunSetKnob

SpecUtility == InitUtility /\ [][NextUtility]_vars

-----------------------------------------------------------------------------
(* select_from *)

\* an executor over a list of tuples: cols() and the cursor of beginTuple / nextTuple
\* (pos = 0 before beginTuple)
Executor(tuples, cols) == [tuples |-> tuples, cols |-> cols, pos |-> 0]

beginTuple(e) == [e EXCEPT !.pos = 1]

nextTuple(e) == [e EXCEPT !.pos = e.pos + 1]

is_end(e) == e.pos > Len(e.tuples)

\* executorTreeRoot->Next(): the current tuple
NextTuple(e) == e.tuples[e.pos]

ColMeta(type, offset, len) == [type |-> type, offset |-> offset, len |-> len]

AggregateExpr(func_name, cols, asia) == [func_name |-> func_name, cols |-> cols, asia |-> asia]

\* std::to_string of the int, or of the float, stored in the 4 bytes at offset of a
\* tuple whose data is held as a list of 4-byte values
to_string(type, data, offset) ==
    IF type = "TYPE_INT" THEN ToString(data[(offset \div 4) + 1])
    ELSE ToString(data[(offset \div 4) + 1]) \o ".000000"

\* lines 153-171: the captions
agg_caption(sel_agg) ==
    IF sel_agg.asia # "" THEN sel_agg.asia
    ELSE IF sel_agg.func_name = "COUNT" /\ Len(sel_agg.cols) > 1
    THEN sel_agg.func_name \o "(" \o "*)"
    ELSE sel_agg.func_name \o "(" \o sel_agg.cols[1].col_name \o ")"

make_captions(cols, aggs) ==
    [i \in DOMAIN cols |-> cols[i].col_name] \o [i \in DOMAIN aggs |-> agg_caption(aggs[i])]

\* the sum of len over the first k columns: cols_offset of the aggregate branch
RECURSIVE cols_offset_after(_, _)
cols_offset_after(cols, k) ==
    IF k = 0 THEN 0 ELSE cols_offset_after(cols, k - 1) + cols[k].len

\* lines 194-240: the cells of one tuple
make_columns(data, cols, aggs) ==
    IF Len(aggs) = 0
    THEN [i \in DOMAIN cols |-> to_string(cols[i].type, data, cols[i].offset)]
    ELSE [i \in DOMAIN cols |->
              to_string(cols[i].type, data, cols_offset_after(cols, i - 1))]
         \o [j \in DOMAIN aggs |->
              to_string(IF aggs[j].func_name = "COUNT" THEN "TYPE_INT" ELSE "TYPE_FLOAT",
                        data, cols_offset_after(cols, Len(cols)) + 4 * (j - 1))]

\* lines 183-187 and 244-248: one line of output.txt
RECURSIVE file_cells(_)
file_cells(cells) ==
    IF cells = <<>> THEN "" ELSE " " \o Head(cells) \o " |" \o file_cells(Tail(cells))

file_line(cells) == "|" \o file_cells(cells) \o "\n"

\* what the record printer is asked for
print_separator == [call |-> "print_separator"]

print_record(cells) == [call |-> "print_record", rec |-> cells]

print_record_count(n) == [call |-> "print_record_count", num_rec |-> n]

\* the footer without its separator line
print_footer_count_only(printer, n) == Append(printer, print_record_count(n))

\* lines 252-255: the footer
print_footer(printer, n) == printer \o <<print_separator, print_record_count(n)>>

\* the tuples an executor yields: two 4-byte values each
SelectTuples == [1..2 -> 0..1]

\* the SELECTs formatted: two plain columns; a grouping column with COUNT; the same
\* with an alias; AVG alone
SelectShapes ==
    { [cols |-> <<ColMeta("TYPE_INT", 0, 4), ColMeta("TYPE_FLOAT", 4, 4)>>,
       sel_cols |-> <<TabCol("r", "a"), TabCol("r", "b")>>,
       sel_aggs |-> <<>>],
      [cols |-> <<ColMeta("TYPE_INT", 0, 4)>>,
       sel_cols |-> <<TabCol("r", "a")>>,
       sel_aggs |-> <<AggregateExpr("COUNT", <<TabCol("r", "b")>>, "")>>],
      [cols |-> <<ColMeta("TYPE_INT", 0, 4)>>,
       sel_cols |-> <<TabCol("r", "a")>>,
       sel_aggs |-> <<AggregateExpr("COUNT", <<TabCol("r", "a"), TabCol("r", "b")>>, "n")>>],
      [cols |-> <<>>,
       sel_cols |-> <<>>,
       sel_aggs |-> <<AggregateExpr("COUNT", <<TabCol("r", "a"), TabCol("r", "b")>>, ""),
                      AggregateExpr("AVG", <<TabCol("r", "b")>>, "")>>] }

\* select_from is entered with an executor that yields up to MaxRows tuples; output.txt
\* is empty or holds the lines of an earlier SELECT
InitSelect ==
    /\ g_enable_nestloop = TRUE
    /\ g_enable_sortmerge = TRUE
    /\ \E shape \in SelectShapes :
          /\ \E tuples \in SeqsUpTo(SelectTuples, MaxRows) :
                 executorTreeRoot = Executor(tuples, shape.cols)
          /\ select_cols = shape.sel_cols
          /\ select_aggs = shape.sel_aggs
    /\ rec_printer = <<>>
    /\ outfile \in {<<>>, <<file_line(<<"a">>), file_line(<<"7">>)>>}
    /\ num_rec = 0
    /\ pc = "select_from"
    /\ utility_plan = NullPlan
    /\ txn_id = 0
    /\ offset_ = 0
    /\ data_send_ = <<>>
    /\ calls = <<>>
    /\ NoPlanning

\* the history of a step of select_from: output.txt as select_from found it
SelectStep(step) ==
    [step |-> step, conds |-> <<>>, tree |-> NullPlan, case |-> "none",
     outfile |-> IF pc = "select_from" THEN outfile ELSE last.outfile]

\* lines 153-192: the captions, the header into both sinks, beginTuple
PrintHeader ==
    /\ pc = "select_from"
    /\ LET captions == make_captions(select_cols, select_aggs)
       IN  /\ rec_printer' = rec_printer
                  \o <<print_separator, print_record(captions), print_separator>>
           /\ outfile' = Append(outfile, file_line(captions))
    /\ num_rec' = 0
    /\ executorTreeRoot' = beginTuple(executorTreeRoot)
    /\ pc' = "print_records"
    /\ last' = SelectStep("PrintHeader")
    /\ UNCHANGED <<g_enable_nestloop, g_enable_sortmerge, utilityVars, select_cols, select_aggs,
                   catalog, kind, tables, conds, sel, table_scan_executors, scantbl,
                   joined_tables, table_join_executors, plannerRoot, conds0, cases>>

\* lines 192-250: one pass of the loop over the executor's tuples
PrintRecord ==
    /\ pc = "print_records"
    /\ ~is_end(executorTreeRoot)
    /\ LET Tuple == NextTuple(executorTreeRoot)
           columns == make_columns(Tuple, executorTreeRoot.cols, select_aggs)
       IN  /\ rec_printer' = Append(rec_printer, print_record(columns))
           /\ outfile' = Append(outfile, file_line(columns))
    /\ num_rec' = num_rec + 1
    /\ executorTreeRoot' = nextTuple(executorTreeRoot)
    /\ last' = SelectStep("PrintRecord")
    /\ UNCHANGED <<g_enable_nestloop, g_enable_sortmerge, pc, utilityVars, select_cols,
                   select_aggs,
                   catalog, kind, tables, conds, sel, table_scan_executors, scantbl,
                   joined_tables, table_join_executors, plannerRoot, conds0, cases>>

\* lines 251-255: the file is closed, the footer and the record count are printed
PrintFooter ==
    /\ pc = "print_records"
    /\ is_end(executorTreeRoot)
    /\ rec_printer' = print_footer(rec_printer, num_rec)
    /\ pc' = "done"
    /\ last' = SelectStep("PrintFooter")
    /\ UNCHANGED <<g_enable_nestloop, g_enable_sortmerge, utilityVars, executorTreeRoot,
                   select_cols, select_aggs, outfile, num_rec,
                   catalog, kind, tables, conds, sel, table_scan_executors, scantbl,
                   joined_tables, table_join_executors, plannerRoot, conds0, cases>>

NextSelect ==
    \/ PrintHeader
    \/ PrintRecord
    \/ PrintFooter

SpecSelect == InitSelect /\ [][NextSelect]_vars

-----------------------------------------------------------------------------
(* Properties: what the plan trees are read with *)

\* every condition a plan tree carries, in scans and joins
RECURSIVE TreeConds(_)
TreeConds(p) ==
    IF p.node = "Scan" THEN p.conds
    ELSE IF p.node = "Join" THEN p.conds \o TreeConds(p.left) \o TreeConds(p.right)
    ELSE IF p.node \in {"Sort", "GroupBy", "Projection", "DML"} THEN TreeConds(p.subplan)
    ELSE <<>>

\* every node of a plan tree
RECURSIVE SubPlans(_)
SubPlans(p) ==
    IF p.node = "Join" THEN {p} \cup SubPlans(p.left) \cup SubPlans(p.right)
    ELSE IF p.node \in {"Sort", "GroupBy", "Projection", "DML"} THEN {p} \cup SubPlans(p.subplan)
    ELSE {p}

Joins(p) == {j \in SubPlans(p) : j.node = "Join"}

Scans(p) == {x \in SubPlans(p) : x.node = "Scan"}

TreeTables(p) == {x.tab_name : x \in Scans(p)}

\* the comparison read the other way round
MirrorOp ==
    [o \in CompOps |->
        IF o = "OP_LT" THEN "OP_GT" ELSE IF o = "OP_GT" THEN "OP_LT"
        ELSE IF o = "OP_LE" THEN "OP_GE" ELSE IF o = "OP_GE" THEN "OP_LE" ELSE o]

Mirrored(c) == [c EXCEPT !.lhs_col = c.rhs_col, !.rhs_col = c.lhs_col, !.op = MirrorOp[c.op]]

\* the same conjunct, as written or with its sides exchanged
SameCond(d, c) == d = c \/ (~c.is_rhs_val /\ d = Mirrored(c))

Count(cs, c) == Cardinality({i \in DOMAIN cs : SameCond(cs[i], c)})

\* whether a comparison holds of two values
Holds(o, x, y) ==
    CASE o = "OP_EQ" -> x = y
      [] o = "OP_NE" -> x # y
      [] o = "OP_LT" -> x < y
      [] o = "OP_GT" -> x > y
      [] o = "OP_LE" -> x <= y
      [] o = "OP_GE" -> x >= y

\* two column-to-column conditions over the same two columns that agree on every row
Equivalent(c, d) ==
    /\ {c.lhs_col, c.rhs_col} = {d.lhs_col, d.rhs_col}
    /\ \A row \in [{d.lhs_col, d.rhs_col} -> 0..1] :
           Holds(c.op, row[c.lhs_col], row[c.rhs_col])
               = Holds(d.op, row[d.lhs_col], row[d.rhs_col])

\* the columns of table t that cs compares with a literal
LitCols(t, cs) ==
    {c.lhs_col.col_name : c \in {d \in Range(cs) : d.is_rhs_val /\ d.lhs_col.tab_name = t}}

\* how many leading columns of index idx are in cols
PrefixLen(idx, cols) ==
    Cardinality({k \in DOMAIN idx : \A j \in 1..k : idx[j] \in cols})

-----------------------------------------------------------------------------
(* C1: predicate conservation *)

\* C1: in the tree make_one_rel returns, every conjunct of the WHERE clause appears
\* exactly once (as written or with its sides exchanged), in one scan or one join, and
\* the tree carries no other condition.
C1_PredicateConservation ==
    pc = "physical_optimization" =>
        \A c \in Range(conds0) \cup Range(TreeConds(table_join_executors)) :
            Count(TreeConds(table_join_executors), c) = Count(conds0, c)

-----------------------------------------------------------------------------
(* C2, C3: get_index_cols, read off the scan of a planned DELETE or UPDATE *)

\* the scan do_planner built from get_index_cols(tables[1], conds)
AccessPath == plannerRoot.subplan

AccessPathBuilt == pc = "done" /\ kind \in {"DeleteStmt", "UpdateStmt"}

IsPrefixOf(p, l) == Len(p) <= Len(l) /\ p = SubSeq(l, 1, Len(p))

\* C2 as stated: the returned columns are exactly the matched leftmost prefix of an index
\* of the table: each has a literal condition, and the index column after them (if any)
\* has none.
C2_ReturnsMatchedPrefix ==
    (AccessPathBuilt /\ AccessPath.tag = "T_IndexScan") =>
        LET lit == LitCols(tables[1], conds)
            got == AccessPath.index_col_names
        IN  /\ \A i \in DOMAIN got : got[i] \in lit
            /\ \E idx \in Range(catalog[tables[1]]) :
                   /\ IsPrefixOf(got, idx)
                   /\ Len(got) < Len(idx) => idx[Len(got) + 1] \notin lit

\* C2 amended: the returned columns are the complete column list of an index of the
\* table whose first column has a literal condition (a non-empty matched prefix); with
\* no such answer nothing is returned.
C2_ReturnsWholeIndex ==
    AccessPathBuilt =>
        LET lit == LitCols(tables[1], conds)
            got == AccessPath.index_col_names
        IN  IF AccessPath.tag = "T_IndexScan"
            THEN /\ got \in Range(catalog[tables[1]])
                 /\ PrefixLen(got, lit) >= 1
            ELSE got = <<>>

\* an index was chosen on a partial match: a returned column has no literal condition
C2_Witness ==
    /\ AccessPathBuilt
    /\ AccessPath.tag = "T_IndexScan"
    /\ \E i \in DOMAIN AccessPath.index_col_names :
           AccessPath.index_col_names[i] \notin LitCols(tables[1], conds)

\* C3: the index chosen is the first, in catalog order, of those with the longest matched
\* leading prefix, and no index is chosen exactly when every index matches nothing.
C3_FirstLongestPrefixChosen ==
    AccessPathBuilt =>
        LET lit == LitCols(tables[1], conds)
            idxs == catalog[tables[1]]
            best == {k \in DOMAIN idxs :
                        /\ PrefixLen(idxs[k], lit) >= 1
                        /\ \A j \in DOMAIN idxs : PrefixLen(idxs[j], lit) <= PrefixLen(idxs[k], lit)}
        IN  IF best = {}
            THEN AccessPath.tag = "T_SeqScan"
            ELSE /\ AccessPath.tag = "T_IndexScan"
                 /\ AccessPath.index_col_names = idxs[CHOOSE k \in best : \A j \in best : k <= j]

-----------------------------------------------------------------------------
(* C4, C5: the scans under the joins *)

\* plan p delivers its rows ordered on column col
OrderedOn(p, col) ==
    \/ p.node = "Sort" /\ p.sel_cols = <<col>>
    \/ /\ p.node = "Scan"
       /\ p.tag = "T_IndexScan"
       /\ p.tab_name = col.tab_name
       /\ p.index_col_names[1] = col.col_name

\* C4: each input of a SortMerge join is ordered on its side's join column: a SortPlan on
\* that column, or an IndexScan whose index starts with that column.
C4_SortMergeInputsOrdered ==
    \A j \in Joins(table_join_executors) :
        j.tag = "T_SortMerge" =>
            /\ OrderedOn(j.left, j.conds[1].lhs_col)
            /\ OrderedOn(j.right, j.conds[1].rhs_col)

AllScans ==
    Range(table_scan_executors) \cup Scans(table_join_executors) \cup Scans(plannerRoot)

\* C5: an IndexScan names, by its non-empty index_cols, the whole column list of an index
\* of its table; a SeqScan has no index_cols.
C5_IndexScanNamesAnIndex ==
    \A x \in AllScans :
        IF x.tag = "T_IndexScan"
        THEN /\ x.index_col_names # <<>>
             /\ x.index_col_names \in Range(catalog[x.tab_name])
        ELSE /\ x.tag = "T_SeqScan"
             /\ x.index_col_names = <<>>

\* a returned SELECT plan with a SeqScan, an IndexScan chosen by get_index_cols and an
\* IndexScan that pop_scan upgraded on the join column
C5_Witness ==
    /\ pc = "done"
    /\ kind = "SelectStmt"
    /\ \E x, y, z \in Scans(plannerRoot) :
           /\ x.tag = "T_SeqScan"
           /\ y.tag = "T_IndexScan" /\ LitCols(y.tab_name, y.conds) # {}
           /\ z.tag = "T_IndexScan" /\ LitCols(z.tab_name, z.conds) = {}

-----------------------------------------------------------------------------
(* C6, C7: the joins of the second and later join conditions *)

MadeOneRel == pc = "physical_optimization" /\ Len(tables) >= 2

NoBothCase == \A i \in DOMAIN cases : cases[i] # "both"

\* a base relation as a join input: its scan, or the sort of its scan
BaseRel(p) == p.node = "Scan" \/ (p.node = "Sort" /\ p.subplan.node = "Scan")

\* C6 as stated: without the neither-side-joined case the tree is left-deep, the right
\* input of every join is a base relation.
C6_LeftDeep ==
    (MadeOneRel /\ NoBothCase) =>
        \A j \in Joins(table_join_executors) : BaseRel(j.right)

\* C6 amended: without the neither-side-joined case every join has a base relation as
\* one input; a join that carries a join condition and is not the first join has the scan
\* of the newly added table as its left input and the running tree as its right input,
\* and only the condition-less joins of leftover tables have the running tree on the left.
C6_NewTableOnLeft ==
    (MadeOneRel /\ NoBothCase) =>
        \A j \in Joins(table_join_executors) :
            \/ BaseRel(j.left) /\ BaseRel(j.right)
            \/ j.conds # <<>> /\ j.left.node = "Scan" /\ j.right.node = "Join"
            \/ j.conds = <<>> /\ j.left.node = "Join" /\ j.right.node = "Scan"

\* r, s, u with r.b = s.b AND s.b <= u.b under the default knobs:
\* Join(u, Join(r, s, r.b = s.b), u.b >= s.b)
C6_Witness ==
    /\ MadeOneRel
    /\ g_enable_nestloop /\ g_enable_sortmerge
    /\ tables = <<"r", "s", "u">>
    /\ conds0 = <<ColCond("r", "b", "OP_EQ", "s", "b"), ColCond("s", "b", "OP_LE", "u", "b")>>
    /\ table_join_executors.tag = "T_NestLoop"
    /\ table_join_executors.left.node = "Scan"
    /\ table_join_executors.left.tab_name = "u"
    /\ table_join_executors.right.node = "Join"
    /\ TreeTables(table_join_executors.right) = {"r", "s"}
    /\ table_join_executors.conds = <<ColCond("u", "b", "OP_GE", "s", "b")>>

\* the join condition just consumed had exactly one of its tables in the running tree
OneSideJoined ==
    /\ last.step = "JoinNextCond"
    /\ (last.conds[1].lhs_col.tab_name \in TreeTables(last.tree))
           # (last.conds[1].rhs_col.tab_name \in TreeTables(last.tree))

\* C7: for a later join condition with exactly one table in the running tree, the new
\* root join has the new table's scan on the left and the old tree on the right, and
\* carries one condition: lhs column of the new table, rhs column of a joined table; it is
\* the original with sides exchanged and operator mirrored exactly when the new table was
\* on the rhs, and it holds of the same rows as the original.
C7_NewTableIsLhs ==
    OneSideJoined =>
        LET c0 == last.conds[1]
            joined == TreeTables(last.tree)
            new == IF c0.lhs_col.tab_name \in joined
                   THEN c0.rhs_col.tab_name ELSE c0.lhs_col.tab_name
            j == table_join_executors
        IN  /\ j.node = "Join"
            /\ j.left.node = "Scan" /\ j.left.tab_name = new
            /\ j.right = last.tree
            /\ Len(j.conds) = 1
            /\ j.conds[1].lhs_col.tab_name = new
            /\ j.conds[1].rhs_col.tab_name \in joined
            /\ j.conds[1] = IF c0.rhs_col.tab_name = new THEN Mirrored(c0) ELSE c0
            /\ Equivalent(j.conds[1], c0)

\* the new table was on the rhs of an order comparison, so the sides were exchanged
C7_Witness ==
    /\ OneSideJoined
    /\ last.conds[1].rhs_col.tab_name \notin TreeTables(last.tree)
    /\ last.conds[1].op \in {"OP_LE", "OP_LT"}
    /\ table_join_executors.conds[1].op \in {"OP_GE", "OP_GT"}

-----------------------------------------------------------------------------
(* C8, C9: the join of the first join condition and the two knobs *)

FirstJoinBuilt == last.step = "FirstJoin" /\ pc # "error"

\* the input of the first SortMerge join for the side whose join column is col: the
\* SeqScan of col's table under an ascending sort on col, or its IndexScan as it is
SortMergeInput(p, col) ==
    IF p.node = "Sort"
    THEN /\ p.subplan.node = "Scan"
         /\ p.subplan.tag = "T_SeqScan"
         /\ p.subplan.tab_name = col.tab_name
         /\ p.sel_cols = <<col>>
         /\ p.is_desc = FALSE
    ELSE /\ p.node = "Scan"
         /\ p.tag = "T_IndexScan"
         /\ p.tab_name = col.tab_name

\* C8: the join of the first join condition is NestLoop over the two scans whenever
\* enable_nestedloop_join is on, and SortMerge when only enable_sortmerge_join is on, with
\* every SeqScan input under an ascending SortPlan on its side's join column.
C8_FirstJoinByKnobs ==
    FirstJoinBuilt =>
        LET j == table_join_executors
            c == last.conds[1]
        IN  /\ j.node = "Join"
            /\ j.conds = <<c>>
            /\ IF g_enable_nestloop
               THEN /\ j.tag = "T_NestLoop"
                    /\ j.left.node = "Scan" /\ j.left.tab_name = c.lhs_col.tab_name
                    /\ j.right.node = "Scan" /\ j.right.tab_name = c.rhs_col.tab_name
               ELSE /\ g_enable_sortmerge
                    /\ j.tag = "T_SortMerge"
                    /\ SortMergeInput(j.left, c.lhs_col)
                    /\ SortMergeInput(j.right, c.rhs_col)

\* r.b = u.b with only sort-merge on and no index on either join column:
\* SortMerge(Sort(SeqScan r, [r.b]), Sort(SeqScan u, [u.b]))
C8_Witness ==
    /\ FirstJoinBuilt
    /\ catalog = DefaultCatalog
    /\ ~g_enable_nestloop /\ g_enable_sortmerge
    /\ table_join_executors =
           JoinPlan("T_SortMerge",
                    SortPlan(ScanPlan("T_SeqScan", "r", <<>>, <<>>), <<TabCol("r", "b")>>, FALSE),
                    SortPlan(ScanPlan("T_SeqScan", "u", <<>>, <<>>), <<TabCol("u", "b")>>, FALSE),
                    <<ColCond("r", "b", "OP_EQ", "u", "b")>>)

\* C9: with both knobs off, a SELECT over two or more tables never gets a plan.
C9_NoPlanWithBothKnobsOff ==
    (kind = "SelectStmt" /\ Len(tables) >= 2 /\ ~g_enable_nestloop /\ ~g_enable_sortmerge) =>
        /\ pc # "done"
        /\ Joins(table_join_executors) = {}
        /\ Joins(plannerRoot) = {}

-----------------------------------------------------------------------------
(* C10: the shape of a SELECT plan *)

\* C10: DMLPlan(Select) over ProjectionPlan, over a SortPlan exactly when the query has
\* ORDER BY (descending exactly for DESC), over a GroupByPlan exactly when the query has
\* a grouping column or an aggregate, over make_one_rel's tree.
C10_SelectPlanShape ==
    (pc = "done" /\ kind = "SelectStmt") =>
        /\ plannerRoot.node = "DML"
        /\ plannerRoot.tag = "T_select"
        /\ plannerRoot.subplan.node = "Projection"
        /\ LET p1 == plannerRoot.subplan.subplan
               p2 == IF p1.node = "Sort" THEN p1.subplan ELSE p1
               p3 == IF p2.node = "GroupBy" THEN p2.subplan ELSE p2
           IN  /\ (p1.node = "Sort") <=> sel.has_sort
               /\ p1.node = "Sort" =>
                      /\ p1.is_desc <=> (sel.order_dir = "OP_DESC")
                      /\ p1.sel_cols = sel.order_cols
               /\ (p2.node = "GroupBy") <=> (sel.gb_cols # <<>> \/ sel.a_exprs # <<>>)
               /\ p3 = table_join_executors
               /\ p3.node \in {"Scan", "Join"}

\* a grouped, ordered SELECT over a join: the sort sits above the group-by
C10_Witness ==
    /\ pc = "done"
    /\ kind = "SelectStmt"
    /\ sel.has_sort /\ sel.order_dir = "OP_DESC"
    /\ sel.gb_cols # <<>>
    /\ plannerRoot.subplan.subplan.node = "Sort"
    /\ plannerRoot.subplan.subplan.subplan.node = "GroupBy"
    /\ plannerRoot.subplan.subplan.subplan.subplan.node = "Join"

-----------------------------------------------------------------------------
(* C12, C13: push_conds on a condition whose two tables are both joined *)

\* the paths, from the root of p down, that lead through joins to a join
RECURSIVE JoinPaths(_)
JoinPaths(p) ==
    IF p.node # "Join" THEN {}
    ELSE {<<>>} \cup {<<"left">> \o q : q \in JoinPaths(p.left)}
                \cup {<<"right">> \o q : q \in JoinPaths(p.right)}

RECURSIVE NodeAt(_, _)
NodeAt(p, path) ==
    IF path = <<>> THEN p
    ELSE IF Head(path) = "left" THEN NodeAt(p.left, Tail(path))
    ELSE NodeAt(p.right, Tail(path))

\* p with condition d added at the end of the conditions of the join at path
RECURSIVE WithCondAt(_, _, _)
WithCondAt(p, path, d) ==
    IF path = <<>> THEN [p EXCEPT !.conds = Append(p.conds, d)]
    ELSE IF Head(path) = "left" THEN [p EXCEPT !.left = WithCondAt(p.left, Tail(path), d)]
    ELSE [p EXCEPT !.right = WithCondAt(p.right, Tail(path), d)]

\* the tables whose scans are reached from p through joins alone, with no SortPlan
\* in between
RECURSIVE DirectTables(_)
DirectTables(p) ==
    IF p.node = "Scan" THEN {p.tab_name}
    ELSE IF p.node = "Join" THEN DirectTables(p.left) \cup DirectTables(p.right)
    ELSE {}

\* the join condition just consumed had both its tables in the running tree
PushStep == last.step = "JoinNextCond" /\ last.case = "push"

\* the joins of p whose subtree has both tables of c
CoveringJoins(p, c) == {q \in JoinPaths(p) : CondTables(c) \subseteq TreeTables(NodeAt(p, q))}

\* C12 as stated: the condition is appended to exactly one join, the topmost of the
\* joins whose subtree covers both of its tables, and the rest of the tree is unchanged.
C12_TopmostJoin ==
    PushStep =>
        LET c0 == last.conds[1]
            cov == CoveringJoins(last.tree, c0)
        IN  \E q \in cov :
                /\ \A o \in cov : Len(q) <= Len(o)
                /\ \E d \in {c0, Mirrored(c0)} :
                       table_join_executors = WithCondAt(last.tree, q, d)

\* the joins of p with one table of c on each side, each reached with no SortPlan in
\* between
SplittingJoins(p, c) ==
    {q \in JoinPaths(p) :
        LET j == NodeAt(p, q)
        IN  \/ /\ c.lhs_col.tab_name \in DirectTables(j.left)
               /\ c.rhs_col.tab_name \in DirectTables(j.right)
            \/ /\ c.rhs_col.tab_name \in DirectTables(j.left)
               /\ c.lhs_col.tab_name \in DirectTables(j.right)}

\* C12 amended: the condition is appended to at most one join, and that join is the
\* lowest one covering both tables: the one with one table of the condition in its left
\* subtree and the other in its right subtree. It covers both tables and no join below
\* it does. When the scan of one of the tables is under a SortPlan, no join is found
\* and the tree is left as it was.
C12_LowestJoin ==
    PushStep =>
        LET c0 == last.conds[1]
            cov == CoveringJoins(last.tree, c0)
            split == SplittingJoins(last.tree, c0)
        IN  IF split = {}
            THEN table_join_executors = last.tree
            ELSE \E q \in split :
                    /\ split = {q}
                    /\ q \in cov
                    /\ \A o \in cov : Len(o) <= Len(q)
                    /\ \E d \in {c0, Mirrored(c0)} :
                           table_join_executors = WithCondAt(last.tree, q, d)

\* r, s, u with r.b = s.b AND s.b <= u.b AND s.a < r.a: the third condition goes to the
\* inner join of r and s, below the root join that also covers both
C12_Witness ==
    /\ PushStep
    /\ \E q \in SplittingJoins(last.tree, last.conds[1]) :
           /\ q # <<>>
           /\ Len(NodeAt(table_join_executors, q).conds) = Len(NodeAt(last.tree, q).conds) + 1
    /\ table_join_executors.conds = last.tree.conds

\* whether push_conds(c, p) calls itself on the join at path: the right subtree is
\* tried only when the left one did not take the condition
RECURSIVE Visited(_, _, _)
Visited(p, path, c) ==
    IF path = <<>> THEN TRUE
    ELSE IF Head(path) = "left" THEN Visited(p.left, Tail(path), c)
    ELSE push_conds(c, p.left).res # 3 /\ Visited(p.right, Tail(path), c)

\* the join at path is where push_conds(c, .) appends
AppendsAt(j, c) ==
    /\ push_conds(c, j).res = 3
    /\ push_conds(c, j).plan.conds # j.conds

\* the condition appended is oriented to the join: lhs column in the left subtree, rhs
\* column in the right one, exchanged and mirrored exactly when the left subtree has
\* the original rhs table, and it holds of the same rows as the original
OrientedAppend(j, c) ==
    LET d == push_conds(c, j).plan.conds[Len(j.conds) + 1]
    IN  /\ push_conds(c, j).plan = [j EXCEPT !.conds = Append(j.conds, d)]
        /\ d.lhs_col.tab_name \in TreeTables(j.left)
        /\ d.rhs_col.tab_name \in TreeTables(j.right)
        /\ d = IF c.rhs_col.tab_name \in TreeTables(j.left) THEN Mirrored(c) ELSE c
        /\ Equivalent(d, c)

\* the code for a join that does not cover both tables of c
SideCode(j, c) ==
    IF c.lhs_col.tab_name \in TreeTables(j) THEN 1
    ELSE IF c.rhs_col.tab_name \in TreeTables(j) THEN 2
    ELSE 0

\* C13: in every call of push_conds on a join, a condition that is appended is oriented
\* to that join, and a join that does not cover both tables of the condition answers
\* 0, 1 or 2 by the side of the condition its tables match.
C13_OrientationAndCodes ==
    PushStep =>
        LET c0 == last.conds[1]
        IN  \A q \in JoinPaths(last.tree) :
                Visited(last.tree, q, c0) =>
                    LET j == NodeAt(last.tree, q)
                    IN  /\ AppendsAt(j, c0) => OrientedAppend(j, c0)
                        /\ ~(CondTables(c0) \subseteq TreeTables(j)) =>
                               push_conds(c0, j).res = SideCode(j, c0)

-----------------------------------------------------------------------------
(* C16: the tables of the join tree *)

\* the scans of a plan tree, left to right
RECURSIVE ScanLeaves(_)
ScanLeaves(p) ==
    IF p.node = "Scan" THEN <<p>>
    ELSE IF p.node = "Join" THEN ScanLeaves(p.left) \o ScanLeaves(p.right)
    ELSE IF p.node \in {"Sort", "GroupBy", "Projection", "DML"} THEN ScanLeaves(p.subplan)
    ELSE <<>>

\* the conjuncts of the WHERE clause over two tables
JoinConds0 == SelectSeq(conds0, LAMBDA c : ~c.is_rhs_val /\ c.lhs_col.tab_name # c.rhs_col.tab_name)

JoinCondTables == UNION {CondTables(JoinConds0[i]) : i \in DOMAIN JoinConds0}

OneLeafPerTable(p) ==
    /\ Len(ScanLeaves(p)) = Len(tables)
    /\ \A i \in DOMAIN tables :
           Cardinality({k \in DOMAIN ScanLeaves(p) : ScanLeaves(p)[k].tab_name = tables[i]}) = 1

\* table t is the right input of a NestLoop join without conditions
CartesianRightInput(p, t) ==
    \E j \in Joins(p) :
        /\ j.tag = "T_NestLoop"
        /\ j.conds = <<>>
        /\ j.right.node = "Scan"
        /\ j.right.tab_name = t

MadeOneRelSelect == pc = "physical_optimization" /\ kind = "SelectStmt"

\* C16 as stated: one scan leaf per table, and every table no join condition mentions
\* is the right input of a condition-less NestLoop join.
C16_LeftoversOnTheRight ==
    MadeOneRelSelect =>
        /\ OneLeafPerTable(table_join_executors)
        /\ \A t \in Range(tables) \ JoinCondTables :
               CartesianRightInput(table_join_executors, t)

\* C16 amended: one scan leaf per table; every table no join condition mentions is the
\* right input of a condition-less NestLoop join, except the first table of a query
\* without any join condition, which is the leftmost leaf (the whole tree when it is the
\* only table).
C16_OneLeafPerTable ==
    MadeOneRelSelect =>
        /\ OneLeafPerTable(table_join_executors)
        /\ \A t \in Range(tables) \ JoinCondTables :
               IF JoinConds0 = <<>> /\ t = tables[1]
               THEN /\ ScanLeaves(table_join_executors)[1].tab_name = t
                    /\ ~CartesianRightInput(table_join_executors, t)
               ELSE CartesianRightInput(table_join_executors, t)

\* four tables, join conditions on r and s only: u and v are joined onto the right
C16_Witness ==
    /\ MadeOneRelSelect
    /\ tables = TableNames
    /\ JoinCondTables = {"r", "s"}
    /\ [i \in 1..4 |-> ScanLeaves(table_join_executors)[i].tab_name] = TableNames
    /\ CartesianRightInput(table_join_executors, "u")
    /\ CartesianRightInput(table_join_executors, "v")

-----------------------------------------------------------------------------
(* C17: the conditions of the scans *)

\* the scans of make_one_rel have been built for a SELECT over several tables
ScansBuilt == kind = "SelectStmt" /\ Len(tables) >= 2 /\ last.step = "BuildScans"

\* C17: every condition attached to the scan of table T has its lhs column in T and a
\* literal or a column of T on the rhs.
C17_ScanCondsOwnRelation ==
    ScansBuilt =>
        \A i \in DOMAIN table_scan_executors :
            LET x == table_scan_executors[i]
            IN  \A k \in DOMAIN x.conds :
                    /\ x.conds[k].lhs_col.tab_name = x.tab_name
                    /\ x.conds[k].is_rhs_val \/ x.conds[k].rhs_col.tab_name = x.tab_name

-----------------------------------------------------------------------------
(* C14, C15: run_cmd_utility *)

UtilityDone == pc = "done" /\ utility_plan.node = "Other"

\* the calls a utility tag has of its own
OwnCalls(tag, t, id) ==
    CASE tag = "T_Help" -> <<>>
      [] tag = "T_ShowTable" -> <<[on |-> "sm_manager_", call |-> "show_tables"]>>
      [] tag = "T_ShowIndex" -> <<[on |-> "sm_manager_", call |-> "show_indexs", tab_name |-> t]>>
      [] tag = "T_DescTable" -> <<[on |-> "sm_manager_", call |-> "desc_table", tab_name |-> t]>>
      [] tag = "T_Transaction_begin" -> <<[on |-> "txn_", call |-> "set_txn_mode", mode |-> TRUE]>>
      [] tag = "T_Transaction_commit" ->
            <<[on |-> "txn_mgr_", call |-> "get_transaction", txn_id |-> id],
              [on |-> "txn_mgr_", call |-> "commit", txn_id |-> id]>>
      [] tag \in {"T_Transaction_rollback", "T_Transaction_abort"} ->
            <<[on |-> "txn_mgr_", call |-> "get_transaction", txn_id |-> id],
              [on |-> "txn_mgr_", call |-> "abort", txn_id |-> id]>>

\* C14: ShowIndex on table T calls show_indexs(T) and then desc_table(T); every other
\* utility tag makes the calls of its own case and no other, and only Help touches the
\* send buffer.
C14_ShowIndexFallsThrough ==
    UtilityDone =>
        LET tag == utility_plan.tag
            t == utility_plan.tab_name_
        IN  /\ calls = IF tag = "T_ShowIndex"
                       THEN OwnCalls("T_ShowIndex", t, txn_id) \o OwnCalls("T_DescTable", t, txn_id)
                       ELSE OwnCalls(tag, t, txn_id)
            /\ tag # "T_Help" => (offset_ = last.offset_ /\ data_send_ = last.data_send_)

\* ShowIndex on s has run: two calls, the second one desc_table on s
C14_Witness ==
    /\ UtilityDone
    /\ utility_plan = OtherPlan("T_ShowIndex", "s")
    /\ Len(calls) = 2
    /\ calls[1].call = "show_indexs" /\ calls[1].tab_name = "s"
    /\ calls[2].call = "desc_table" /\ calls[2].tab_name = "s"

\* C15: Help writes the help text into the send buffer from the offset it started with,
\* leaves the other bytes alone, and moves the offset forward by the length of the text,
\* to just past the last byte written, from any starting offset.
C15_HelpAdvancesOffset ==
    last.step = "RunHelp" =>
        /\ \A i \in DOMAIN data_send_ :
               data_send_[i] =
                   IF last.offset_ <= i /\ i < last.offset_ + Len(help_info)
                   THEN help_info[i - last.offset_ + 1]
                   ELSE last.data_send_[i]
        /\ offset_ = last.offset_ + Len(help_info)

-----------------------------------------------------------------------------
(* C11: what select_from sends to the record printer and to output.txt *)

SelectDone == pc = "done" /\ executorTreeRoot # NullPlan

\* the cells of the k-th tuple the executor yields
RowCells(k) ==
    make_columns(executorTreeRoot.tuples[k], executorTreeRoot.cols, select_aggs)

Captions == make_captions(select_cols, select_aggs)

\* C11: for an executor of n tuples the record printer gets separator, header row,
\* separator, the n data rows in executor order, separator and the record count n;
\* output.txt gets, after what it held, the header row and the same n rows in the same
\* order and nothing else.
C11_OutputSequence ==
    SelectDone =>
        LET n == Len(executorTreeRoot.tuples)
        IN  /\ rec_printer =
                   <<print_separator, print_record(Captions), print_separator>>
                   \o [k \in 1..n |-> print_record(RowCells(k))]
                   \o <<print_separator, print_record_count(n)>>
            /\ outfile =
                   last.outfile \o <<file_line(Captions)>> \o [k \in 1..n |-> file_line(RowCells(k))]

\* C11, on the way: after each pass of the loop the two sinks hold the header and the
\* rows of the tuples passed, and num_rec counts them.
C11_RowsSoFar ==
    pc = "print_records" =>
        LET k == executorTreeRoot.pos - 1
        IN  /\ num_rec = k
            /\ Len(rec_printer) = 3 + k
            /\ Len(outfile) = Len(last.outfile) + 1 + k

\* an executor of two different tuples, output.txt not empty before: header and rows are
\* appended in order, the count is 2
C11_Witness ==
    /\ SelectDone
    /\ Len(executorTreeRoot.tuples) = 2
    /\ RowCells(1) # RowCells(2)
    /\ last.outfile # <<>>
    /\ rec_printer[4] = print_record(RowCells(1))
    /\ rec_printer[5] = print_record(RowCells(2))
    /\ rec_printer[7] = print_record_count(2)
    /\ Len(outfile) = Len(last.outfile) + 3

\* the empty scan: header, no rows, footer, count 0
C11_EmptyWitness ==
    /\ SelectDone
    /\ executorTreeRoot.tuples = <<>>
    /\ Len(rec_printer) = 5
    /\ rec_printer[5] = print_record_count(0)

====
